---- MODULE Spec2Model ----
(***************************************************************************)
(* Model of vertical-pod-autoscaler/pkg/utils/metrics/recommender:         *)
(* the quantity conversion toFloat64, ObserveVPARecommendation and the     *)
(* ObjectCounter (NewObjectCounter / Add / Observe) writing to the two     *)
(* gauge vectors vpaContainerRecommendations and vpaObjectCount.           *)
(*                                                                         *)
(* Numbers.  TLC integers are 32 bit, the program's are int64 and float64. *)
(* An int64 milli-value is kept in base 1000 as [k |-> thousands, r |->    *)
(* rest] (k * 1000 + r), and a float64 is kept as the decimal number it    *)
(* stands for, [int |-> whole part, mil |-> thousandths].  Every int64 the *)
(* model converts is below 2^53, so float64(x) is exact; x * 0.001 is the  *)
(* float64 product, within one rounding of the decimal x / 1000 that the   *)
(* model keeps (and equal to the float64 of that decimal for the values    *)
(* the properties name: 100, 200, 400 and 1500 milli, 10^10 milli).  The   *)
(* product is monotonic in x, so two results are ordered as their          *)
(* decimals are, equal decimals giving equal results.                      *)
(***************************************************************************)
EXTENDS Integers, Sequences, FiniteSets

VARIABLES
    oc,                           \* the current *ObjectCounter, or NoCounter
    vpaObjectCount,               \* gauge vector: label pair -> value
    added,                        \* ghost: how often each object was passed to Add on oc
    lastOp,                       \* ghost: the operation that ran last ("reobserve":
                                  \* an Observe right after an Observe)
    objWrites,                    \* ghost: the Set calls of the operation that ran last
    numAdds,                      \* ghost: number of Add calls so far
    vpaContainerRecommendations,  \* gauge vector: label tuple -> value
    recArg,                       \* ghost: argument of the last observation
    recWrites,                    \* ghost: its Set calls, in order
    recCalls,                     \* ghost: number of observations
    convIn,                       \* a pair of quantities
    convOut                       \* toFloat64 of each, or NoResult

vars == <<oc, vpaObjectCount, added, lastOp, objWrites, numAdds,
          vpaContainerRecommendations, recArg, recWrites, recCalls,
          convIn, convOut>>

counterVars == <<oc, vpaObjectCount, added, lastOp, objWrites, numAdds>>

recVars == <<vpaContainerRecommendations, recArg, recWrites, recCalls>>

convVars == <<convIn, convOut>>

(***************************************************************************)
(* Bounds of the model.                                                    *)
(***************************************************************************)
\* Add calls in one run, over all counters.
MaxAdds == 3

MaxContainers == 2

MaxRecCalls == 2

(***************************************************************************)
(* resource.Quantity and float64.                                          *)
(***************************************************************************)

\* A quantity is a non-negative decimal: units + milli/1000 + micro/1000000.
Quantity(u, m, c) == [units |-> u, milli |-> m, micro |-> c]

ZeroQuantity == Quantity(0, 0, 0)

\* q.Value(): the quantity rounded up to the nearest integer.
Value(q) == IF q.milli > 0 \/ q.micro > 0 THEN q.units + 1 ELSE q.units

\* q.MilliValue(): ceil(q * 1000), an int64 in base 1000.
MilliValue(q) ==
    IF q.micro = 0 THEN [k |-> q.units, r |-> q.milli]
    ELSE IF q.milli = 999 THEN [k |-> q.units + 1, r |-> 0]
    ELSE [k |-> q.units, r |-> q.milli + 1]

\* float64(v) of an int64 held as a plain integer.
Float64(v) == [int |-> v, mil |-> 0]

\* float64(x) * 0.001 of an int64 held in base 1000.
MulMilli(x) == [int |-> x.k, mil |-> x.r]

Threshold == 10000000

\* x mod 2^32 of an int64 in base 1000 (x < 3 * 2^32): uint32(x).
Uint32(x) ==
    LET GE(n) == \/ x.k > n * 4294967
                 \/ x.k = n * 4294967 /\ x.r >= n * 296
        n  == IF GE(2) THEN 2 ELSE IF GE(1) THEN 1 ELSE 0
        rr == x.r - n * 296
    IN  IF rr >= 0 THEN [k |-> x.k - n * 4294967, r |-> rr]
        ELSE [k |-> x.k - n * 4294967 - 1, r |-> rr + 1000]

toFloat64_narrow(q) ==
    LET v == Value(q)
    IN  IF v > Threshold THEN Float64(v) ELSE MulMilli(Uint32(MilliValue(q)))

toFloat64_inclusive(q) ==
    LET v == Value(q)
    IN  IF v >= Threshold THEN Float64(v) ELSE MulMilli(MilliValue(q))

toFloat64(q) ==
    LET v == Value(q)
    IN  IF v > Threshold THEN Float64(v) ELSE MulMilli(MilliValue(q))

(***************************************************************************)
(* The object counter.                                                     *)
(***************************************************************************)

\* The nil *UpdateMode.
NilMode == "<nil>"

modes == <<"Off", "Initial", "Recreate", "Auto">>

objectCounterKey(m, h) == [mode |-> m, has |-> h]

NoCounter == [cnt |-> <<>>, live |-> FALSE]

\* The objects handed to Add: the UpdateMode pointer (nil, a known mode, or
\* a mode string outside modes) and the result of HasRecommendation().
CensusModes == {NilMode, "Off", "Initial", "Recreate", "Auto", "Custom"}

CensusVpas == [UpdateMode : CensusModes, hasRecommendation : BOOLEAN]

HasRecommendation(vpa) == vpa.hasRecommendation

\* fmt.Sprintf("%v", b) of a bool.
SprintfBool(b) == IF b THEN "true" ELSE "false"

\* WithLabelValues(k.mode, fmt.Sprintf("%v", k.has)).
CountLabels(k) == <<k.mode, SprintfBool(k.has)>>

\* g.WithLabelValues(l...).Set(x) on a gauge vector g.
GaugeSet(g, l, x) == [s \in DOMAIN g \cup {l} |-> IF s = l THEN x ELSE g[s]]

NoneAdded == [vpa \in CensusVpas |-> 0]

RECURSIVE Sum(_, _)
Sum(f, S) ==
    IF S = {} THEN 0
    ELSE LET x == CHOOSE y \in S : TRUE IN f[x] + Sum(f, S \ {x})

SeedKeys_falseOnly ==
    {objectCounterKey(modes[i], FALSE) : i \in 1..Len(modes)}

SeedKeys ==
    {objectCounterKey(modes[i], h) : i \in 1..Len(modes), h \in BOOLEAN}

NewObjectCounter ==
    /\ oc' = [cnt |-> [k \in SeedKeys |-> 0], live |-> TRUE]
    /\ added' = NoneAdded
    /\ lastOp' = "new"
    /\ objWrites' = {}
    /\ UNCHANGED <<vpaObjectCount, numAdds>>
    /\ UNCHANGED <<recVars, convVars>>

AddKey_defaultAuto(vpa) ==
    objectCounterKey(IF vpa.UpdateMode # NilMode THEN vpa.UpdateMode ELSE "Auto",
                     HasRecommendation(vpa))

\* The key Add forms: mode stays "" when vpa.UpdateMode is nil.
AddKey(vpa) ==
    objectCounterKey(IF vpa.UpdateMode # NilMode THEN vpa.UpdateMode ELSE "",
                     HasRecommendation(vpa))

\* oc.cnt[key]++ on a Go map: a missing key reads as 0.
Increment_overwrite(cnt, key) ==
    [k \in DOMAIN cnt \cup {key} |-> IF k = key THEN 1 ELSE cnt[k]]

Increment(cnt, key) ==
    [k \in DOMAIN cnt \cup {key} |->
        IF k = key THEN (IF key \in DOMAIN cnt THEN cnt[key] ELSE 0) + 1
        ELSE cnt[k]]

Add(vpa) ==
    /\ oc.live
    /\ numAdds < MaxAdds
    /\ oc' = [oc EXCEPT !.cnt = Increment(oc.cnt, AddKey(vpa))]
    /\ added' = [added EXCEPT ![vpa] = @ + 1]
    /\ lastOp' = "add"
    /\ objWrites' = {}
    /\ numAdds' = numAdds + 1
    /\ UNCHANGED vpaObjectCount
    /\ UNCHANGED <<recVars, convVars>>

ObserveWrites_skipZero(cnt) ==
    {[labels |-> CountLabels(k), value |-> Float64(cnt[k])] :
        k \in {x \in DOMAIN cnt : cnt[x] > 0}}

\* The Set calls of one Observe: one per key of the map, whatever the order
\* of the range (distinct keys have distinct labels).
ObserveWrites(cnt) ==
    {[labels |-> CountLabels(k), value |-> Float64(cnt[k])] : k \in DOMAIN cnt}

\* The gauge vector after a set of Set calls on distinct label tuples.
ObserveSink(g, ws) ==
    [s \in DOMAIN g \cup {w.labels : w \in ws} |->
        IF \E w \in ws : w.labels = s
        THEN (CHOOSE w \in ws : w.labels = s).value
        ELSE g[s]]

AfterObserve_reset(cnt) == [k \in DOMAIN cnt |-> 0]

\* The counter's map after Observe: the loop only reads it.
AfterObserve(cnt) == cnt

Observe ==
    /\ oc.live
    /\ vpaObjectCount' = ObserveSink(vpaObjectCount, ObserveWrites(oc.cnt))
    /\ objWrites' = ObserveWrites(oc.cnt)
    /\ oc' = [oc EXCEPT !.cnt = AfterObserve(oc.cnt)]
    /\ lastOp' = IF lastOp \in {"observe", "reobserve"} THEN "reobserve" ELSE "observe"
    /\ UNCHANGED <<added, numAdds>>
    /\ UNCHANGED <<recVars, convVars>>

(***************************************************************************)
(* ObserveVPARecommendation.                                               *)
(***************************************************************************)

\* ResourceList.Cpu() / Memory(): the entry, or a zero quantity if missing.
Cpu(rl) == IF "cpu" \in DOMAIN rl THEN rl["cpu"] ELSE ZeroQuantity

Memory(rl) == IF "memory" \in DOMAIN rl THEN rl["memory"] ELSE ZeroQuantity

Milli(m) == Quantity(m \div 1000, m % 1000, 0)

Units(u) == Quantity(u, 0, 0)

\* Two container recommendations: the bands 100m/256Mi, 200m/512Mi, 400m/1Gi,
\* and one with an empty band, a band without memory and a sub-milli CPU.
ContainerRecs ==
    { [ContainerName |-> "app",
       LowerBound |-> [cpu |-> Milli(100), memory |-> Units(268435456)],
       Target     |-> [cpu |-> Milli(200), memory |-> Units(536870912)],
       UpperBound |-> [cpu |-> Milli(400), memory |-> Units(1073741824)]],
      [ContainerName |-> "sidecar",
       LowerBound |-> <<>>,
       Target     |-> [cpu |-> Quantity(0, 0, 500)],
       UpperBound |-> [cpu |-> Milli(1500), memory |-> Units(Threshold)]] }

RECURSIVE SeqsUpTo(_, _)
SeqsUpTo(S, n) ==
    IF n = 0 THEN {<<>>}
    ELSE LET shorter == SeqsUpTo(S, n - 1)
         IN  shorter \cup {Append(q, x) : q \in shorter, x \in S}

\* The values of vpa.Recommendation: its container list is a nil slice, an
\* empty slice or up to MaxContainers entries.
Recommendations ==
    {[ContainerRecommendations |-> [nil |-> TRUE, elems |-> <<>>]]}
    \cup {[ContainerRecommendations |-> [nil |-> FALSE, elems |-> e]] :
             e \in SeqsUpTo(ContainerRecs, MaxContainers)}

RecVpas ==
    [ID : {[VpaName |-> "web", Namespace |-> "default"],
           [VpaName |-> "db", Namespace |-> "prod"]},
     PodSelector : {[key |-> "app", value |-> "web"], [key |-> "tier", value |-> "db"]},
     Recommendation : Recommendations]

NoVpa ==
    [ID |-> [VpaName |-> "", Namespace |-> ""],
     PodSelector |-> [key |-> "", value |-> ""],
     Recommendation |-> [ContainerRecommendations |-> [nil |-> TRUE, elems |-> <<>>]]]

\* vpa.PodSelector.String() of a one-requirement selector.
SelectorString(sel) == sel.key \o "=" \o sel.value

RecLabels(vpa, r, band, res) ==
    <<vpa.ID.VpaName, vpa.ID.Namespace, SelectorString(vpa.PodSelector),
      r.ContainerName, band, res>>

SetCall(l, x) == [labels |-> l, value |-> x]

ContainerWrites_pasted(vpa, r) ==
    << SetCall(RecLabels(vpa, r, "lower_bound", "cpu"), toFloat64(Cpu(r.LowerBound))),
       SetCall(RecLabels(vpa, r, "lower_bound", "memory"), toFloat64(Memory(r.LowerBound))),
       SetCall(RecLabels(vpa, r, "target", "cpu"), toFloat64(Cpu(r.Target))),
       SetCall(RecLabels(vpa, r, "target", "memory"), toFloat64(Memory(r.Target))),
       SetCall(RecLabels(vpa, r, "upper_bound", "cpu"), toFloat64(Cpu(r.UpperBound))),
       SetCall(RecLabels(vpa, r, "upper_bound", "memory"), toFloat64(Memory(r.Target))) >>

\* The six Set calls of one iteration of the loop, in order.
ContainerWrites(vpa, r) ==
    << SetCall(RecLabels(vpa, r, "lower_bound", "cpu"), toFloat64(Cpu(r.LowerBound))),
       SetCall(RecLabels(vpa, r, "lower_bound", "memory"), toFloat64(Memory(r.LowerBound))),
       SetCall(RecLabels(vpa, r, "target", "cpu"), toFloat64(Cpu(r.Target))),
       SetCall(RecLabels(vpa, r, "target", "memory"), toFloat64(Memory(r.Target))),
       SetCall(RecLabels(vpa, r, "upper_bound", "cpu"), toFloat64(Cpu(r.UpperBound))),
       SetCall(RecLabels(vpa, r, "upper_bound", "memory"), toFloat64(Memory(r.UpperBound))) >>

RECURSIVE RangeWrites(_, _)
RangeWrites(vpa, rs) ==
    IF rs = <<>> THEN <<>>
    ELSE ContainerWrites(vpa, Head(rs)) \o RangeWrites(vpa, Tail(rs))

RecommendationWrites_placeholder(vpa) ==
    IF vpa.Recommendation.ContainerRecommendations.elems = <<>>
    THEN << SetCall(<<vpa.ID.VpaName, vpa.ID.Namespace,
                      SelectorString(vpa.PodSelector), "", "target", "cpu">>,
                    Float64(0)) >>
    ELSE RangeWrites(vpa, vpa.Recommendation.ContainerRecommendations.elems)

\* All Set calls of ObserveVPARecommendation(vpa): the range visits the
\* entries in order; a nil or empty slice gives no iteration.
RecommendationWrites(vpa) ==
    RangeWrites(vpa, vpa.Recommendation.ContainerRecommendations.elems)

RECURSIVE ApplyWrites(_, _)
ApplyWrites(g, ws) ==
    IF ws = <<>> THEN g
    ELSE ApplyWrites(GaugeSet(g, Head(ws).labels, Head(ws).value), Tail(ws))

ObserveVPARecommendation(vpa) ==
    /\ recCalls < MaxRecCalls
    /\ recArg' = vpa
    /\ recWrites' = RecommendationWrites(vpa)
    /\ vpaContainerRecommendations' =
           ApplyWrites(vpaContainerRecommendations, RecommendationWrites(vpa))
    /\ recCalls' = recCalls + 1
    /\ UNCHANGED <<counterVars, convVars>>

(***************************************************************************)
(* toFloat64 applied to a pair of quantities.                              *)
(***************************************************************************)

ConvUnits == {0, 1, 4000000, 9999999, 10000000, 10000001, 20000000}

ConvMillis == {0, 100, 999}

ConvMicros == {0, 500}

ConvQuantities ==
    {Quantity(u, m, c) : u \in ConvUnits, m \in ConvMillis, c \in ConvMicros}

NoResult == [done |-> FALSE, value |-> Float64(0)]

Convert(i) ==
    /\ ~convOut[i].done
    /\ convOut' = [convOut EXCEPT ![i] = [done |-> TRUE, value |-> toFloat64(convIn[i])]]
    /\ UNCHANGED <<convIn, counterVars, recVars>>

(***************************************************************************)
(* Specifications.                                                         *)
(***************************************************************************)

InitCounter ==
    /\ oc = NoCounter
    /\ vpaObjectCount = <<>>
    /\ added = NoneAdded
    /\ lastOp = "init"
    /\ objWrites = {}
    /\ numAdds = 0

InitRec ==
    /\ vpaContainerRecommendations = <<>>
    /\ recArg = NoVpa
    /\ recWrites = <<>>
    /\ recCalls = 0

InitConv ==
    /\ convIn = <<ZeroQuantity, ZeroQuantity>>
    /\ convOut = <<NoResult, NoResult>>

\* The object counter over reporting cycles.
Init == InitCounter /\ InitRec /\ InitConv

Next ==
    \/ NewObjectCounter
    \/ \E vpa \in CensusVpas : Add(vpa)
    \/ Observe

Spec == Init /\ [][Next]_vars

\* Observations of recommendations.
NextRec == \E vpa \in RecVpas : ObserveVPARecommendation(vpa)

SpecRec == Init /\ [][NextRec]_vars

\* toFloat64 on every pair of input quantities.
InitPairs ==
    /\ InitCounter
    /\ InitRec
    /\ convIn \in ConvQuantities \X ConvQuantities
    /\ convOut = <<NoResult, NoResult>>

NextConv == \E i \in 1..2 : Convert(i)

SpecConv == InitPairs /\ [][NextConv]_vars

(***************************************************************************)
(* Properties of the object counter (under Spec).                          *)
(***************************************************************************)

KnownModes == {"Off", "Initial", "Recreate", "Auto"}

\* Every mode string a bucket key of the model can carry.
KeyModes == KnownModes \cup {"", "Custom"}

Flushed == lastOp \in {"observe", "reobserve"}

\* The objects whose bucket is (m, h): mode m, or no mode at all for m = "".
MapsTo(m, h) ==
    {v \in CensusVpas :
        /\ v.hasRecommendation = h
        /\ \/ v.UpdateMode = m
           \/ m = "" /\ v.UpdateMode = NilMode}

\* How many objects of bucket (m, h) the current counter was given.
AddedFor(m, h) == Sum(added, MapsTo(m, h))

AddedTotal == Sum(added, CensusVpas)

BoolLabel(h) == IF h THEN "true" ELSE "false"

KnownSeries == {<<m, b>> : m \in KnownModes, b \in {"true", "false"}}

\* C1: a fresh counter flushed without any Add writes exactly the eight
\* series (m, h), m a known mode, each with value 0, and nothing else (no
\* series of the unset mode ""); the sink then reads 0 for each of them.
C1_FreshFlushWritesZeros ==
    (Flushed /\ AddedTotal = 0) =>
        /\ objWrites = {[labels |-> l, value |-> [int |-> 0, mil |-> 0]] : l \in KnownSeries}
        /\ \A l \in KnownSeries :
               l \in DOMAIN vpaObjectCount /\ vpaObjectCount[l] = [int |-> 0, mil |-> 0]

C1_Witness ==
    /\ lastOp = "observe"
    /\ AddedTotal = 0
    /\ Cardinality(objWrites) = 8

\* C2: after a flush no series of the sink keeps a stale reading: every
\* series the sink holds whose bucket got no object from the current
\* counter reads 0, whatever its mode string.  (A series outside the known
\* modes is in the sink only if an earlier counter flushed objects for it.)
C2_NoStaleReading ==
    Flushed =>
        \A m \in KeyModes, h \in BOOLEAN :
            (<<m, BoolLabel(h)>> \in DOMAIN vpaObjectCount /\ AddedFor(m, h) = 0)
                => vpaObjectCount[<<m, BoolLabel(h)>>] = [int |-> 0, mil |-> 0]

\* The writes of a flush when all k objects of the counter are of bucket
\* (m, h): k for that bucket, 0 for every other bucket, all others seeded.
SingleBucketFlush(m, h) ==
    /\ \E w \in objWrites :
           w.labels = <<m, BoolLabel(h)>> /\ w.value = [int |-> AddedTotal, mil |-> 0]
    /\ \A w \in objWrites :
           w.labels # <<m, BoolLabel(h)>> =>
               w.labels \in KnownSeries /\ w.value = [int |-> 0, mil |-> 0]

\* C3 as stated: for every bucket key K and every k >= 0, a counter given k
\* objects, all of bucket K, flushes k for K and leaves the others as they
\* were.
C3_AnyKeyAnyCount ==
    Flushed =>
        \A m \in KeyModes, h \in BOOLEAN :
            AddedFor(m, h) = AddedTotal => SingleBucketFlush(m, h)

\* C3 amended: the same for k >= 1 and any K, and for k = 0 when K is one
\* of the eight seeded keys; with k = 0 and K not seeded, the flush writes
\* nothing for K.
C3_SeededOrNonEmpty ==
    Flushed =>
        \A m \in KeyModes, h \in BOOLEAN :
            AddedFor(m, h) = AddedTotal =>
                IF AddedTotal >= 1 \/ m \in KnownModes
                THEN SingleBucketFlush(m, h)
                ELSE \A w \in objWrites : w.labels # <<m, BoolLabel(h)>>

C3_Witness ==
    /\ Flushed
    /\ AddedTotal = 2
    /\ AddedFor("Custom", TRUE) = 2
    /\ \E w \in objWrites :
           w.labels = <<"Custom", "true">> /\ w.value = [int |-> 2, mil |-> 0]

IsAdd == lastOp' = "add" /\ numAdds' = numAdds + 1

\* C4: an Add of an object whose mode is nil counts it under ("", has), and
\* one of a mode string outside the known modes under (that string, has): a
\* key outside the seeded ones, created with count 1 by the first such Add
\* and incremented by every later one; no other bucket changes.
C4_UnsetModeBucket ==
    [][IsAdd =>
        \A v \in CensusVpas :
            (added'[v] = added[v] + 1 /\ v.UpdateMode \notin KnownModes) =>
                LET K == [mode |-> IF v.UpdateMode = NilMode THEN "" ELSE v.UpdateMode,
                          has  |-> v.hasRecommendation]
                IN  /\ K.mode \notin KnownModes
                    /\ DOMAIN oc'.cnt = DOMAIN oc.cnt \cup {K}
                    /\ (K \in DOMAIN oc.cnt) = (AddedFor(K.mode, K.has) >= 1)
                    /\ oc'.cnt[K] = AddedFor(K.mode, K.has) + 1
                    /\ \A k \in DOMAIN oc.cnt \ {K} : oc'.cnt[k] = oc.cnt[k]
      ]_vars

C4_Witness ==
    /\ oc.live
    /\ [mode |-> "", has |-> FALSE] \in DOMAIN oc.cnt
    /\ oc.cnt[[mode |-> "", has |-> FALSE]] = 2
    /\ oc.cnt[[mode |-> "Auto", has |-> TRUE]] = 0
    /\ added[[UpdateMode |-> NilMode, hasRecommendation |-> FALSE]] = 2

\* C5: Observe leaves the counter's map as it was, and an Observe that
\* follows an Observe writes the same series with the same values and
\* leaves the sink as the first left it.
C5_ObserveReadOnly ==
    [][lastOp' \in {"observe", "reobserve"} =>
        /\ oc'.cnt = oc.cnt
        /\ lastOp' = "reobserve" =>
               /\ objWrites' = objWrites
               /\ vpaObjectCount' = vpaObjectCount
      ]_vars

C5_Witness ==
    /\ lastOp = "reobserve"
    /\ AddedTotal >= 2
    /\ \E w \in objWrites : w.value.int >= 1

\* C10: after each flush the sink reads, for every known mode m and every
\* h, the number of objects of bucket (m, h) given to the current counter,
\* whatever earlier counters wrote.
C10_KnownSeriesAreCurrent ==
    Flushed =>
        \A m \in KnownModes, h \in BOOLEAN :
            /\ <<m, BoolLabel(h)>> \in DOMAIN vpaObjectCount
            /\ vpaObjectCount[<<m, BoolLabel(h)>>] = [int |-> AddedFor(m, h), mil |-> 0]

\* A second cycle (the sink still holds what an earlier counter wrote for
\* the unset mode) in which Auto/true has one object and Off/false none.
C10_Witness ==
    /\ Flushed
    /\ <<"", "false">> \in DOMAIN vpaObjectCount
    /\ AddedFor("", FALSE) = 0
    /\ AddedFor("Auto", TRUE) = 1
    /\ vpaObjectCount[<<"Auto", "true">>] = [int |-> 1, mil |-> 0]
    /\ vpaObjectCount[<<"Off", "false">>] = [int |-> 0, mil |-> 0]

(***************************************************************************)
(* Properties of ObserveVPARecommendation (under SpecRec).                 *)
(***************************************************************************)

BandNames == <<"lower_bound", "target", "upper_bound">>

BandFields == <<"LowerBound", "Target", "UpperBound">>

ResourceNames == <<"cpu", "memory">>

Observed == recArg.Recommendation.ContainerRecommendations.elems

\* The quantity of band b, resource c of a container recommendation.
BandQuantity(r, b, c) ==
    LET rl == r[BandFields[b]]
    IN  IF ResourceNames[c] \in DOMAIN rl THEN rl[ResourceNames[c]] ELSE ZeroQuantity

\* C6: an observation of an object with n container recommendations makes
\* exactly 6n Set calls: for the i-th container, band b and resource c the
\* call number 6(i-1) + 2(b-1) + c, on the series (name, namespace,
\* selector string, container, band, resource), with the converted quantity
\* of that band and resource (100m as 0.1, 256Mi as 268435456); the sink
\* then holds, for every series written, the value written to it last.
C6_SixWritesPerContainer ==
    recCalls > 0 =>
        /\ Len(recWrites) = 6 * Len(Observed)
        /\ \A i \in 1..Len(Observed), b \in 1..3, c \in 1..2 :
               LET w == recWrites[6 * (i - 1) + 2 * (b - 1) + c]
                   q == BandQuantity(Observed[i], b, c)
               IN  /\ w.labels = <<recArg.ID.VpaName, recArg.ID.Namespace,
                                   recArg.PodSelector.key \o "=" \o recArg.PodSelector.value,
                                   Observed[i].ContainerName, BandNames[b], ResourceNames[c]>>
                   /\ w.value = toFloat64(q)
                   /\ q = Quantity(0, 100, 0) => w.value = [int |-> 0, mil |-> 100]
                   /\ q = Quantity(268435456, 0, 0) => w.value = [int |-> 268435456, mil |-> 0]
        /\ \A j \in 1..Len(recWrites) :
               /\ recWrites[j].labels \in DOMAIN vpaContainerRecommendations
               /\ (\A k \in (j + 1)..Len(recWrites) : recWrites[k].labels # recWrites[j].labels)
                      => vpaContainerRecommendations[recWrites[j].labels] = recWrites[j].value

C6_Witness ==
    /\ recCalls > 0
    /\ Len(Observed) = 2
    /\ Observed[1].ContainerName = "app"
    /\ Observed[2].ContainerName = "sidecar"
    /\ Len(recWrites) = 12
    /\ recWrites[1].value = [int |-> 0, mil |-> 100]

C8_ExclusiveThreshold ==
    \A i \in 1..2 :
        convOut[i].done =>
            LET q == convIn[i]
                x == convOut[i].value
            IN  /\ IF Value(q) > 10000000
                   THEN x = [int |-> Value(q), mil |-> 0]
                   ELSE x = [int |-> MilliValue(q).k, mil |-> MilliValue(q).r]
                /\ q = Quantity(10000000, 0, 0) => x = [int |-> 10000000, mil |-> 0]
                /\ q = Quantity(10000001, 0, 0) => x = [int |-> 10000001, mil |-> 0]
                /\ q = Quantity(9999999, 100, 0) => x = [int |-> 9999999, mil |-> 100]
                /\ q = Quantity(10000000, 100, 0) => x = [int |-> 10000001, mil |-> 0]

C8_Witness ==
    /\ convOut[1].done
    /\ convOut[2].done
    /\ convIn[1] = Quantity(10000000, 0, 0)
    /\ convIn[2] = Quantity(10000001, 0, 0)
    /\ convOut[1].value = [int |-> 10000000, mil |-> 0]
    /\ convOut[2].value = [int |-> 10000001, mil |-> 0]

\* The order of two quantities, and of two float64 values.
QuantityLess(a, b) ==
    \/ a.units < b.units
    \/ a.units = b.units /\ a.milli < b.milli
    \/ a.units = b.units /\ a.milli = b.milli /\ a.micro < b.micro

FloatLeq(a, b) == a.int < b.int \/ (a.int = b.int /\ a.mil <= b.mil)

SameBranch(a, b) == (Value(a) > 10000000) = (Value(b) > 10000000)

\* C9: for quantities q1 < q2 whose Value() is on the same side of the
\* 10,000,000 threshold, toFloat64(q1) <= toFloat64(q2).
C9_MonotonicPerBranch ==
    (/\ convOut[1].done
     /\ convOut[2].done
     /\ QuantityLess(convIn[1], convIn[2])
     /\ SameBranch(convIn[1], convIn[2]))
        => FloatLeq(convOut[1].value, convOut[2].value)

C9_Witness ==
    /\ convOut[1].done
    /\ convOut[2].done
    /\ convIn[1] = Quantity(4000000, 0, 0)
    /\ convIn[2] = Quantity(9999999, 999, 500)
    /\ SameBranch(convIn[1], convIn[2])
    /\ convOut[2].value = [int |-> 10000000, mil |-> 0]

====
